---- MODULE Spec2Model ----
(***************************************************************************)
(* A model of veripy's runtime type algebra (src/veripy/types): the type   *)
(* descriptors built by subscripting Union, Intersection, Tuple, Record,   *)
(* HasAttrs, Callable, Eq/Ne/Ge/Gt/Le/Lt and Satisfies, and the two        *)
(* relations the metaclasses hook: isinstance (__instancecheck__) and      *)
(* issubclass (__subclasscheck__); and of the contract decorator           *)
(* (src/veripy/__init__.py), which checks arguments and results with them  *)
(* while the module flag verify is set.                                    *)
(*                                                                         *)
(* A type is a record. kind "class" is a native class (metaclass type);    *)
(* every other kind is a class created by one of the metaclasses, carrying *)
(* the payload attributes the source sets on it. An unparameterised        *)
(* descriptor (the bare Union, Tuple, ... symbol) has param = FALSE and    *)
(* stands for the payload None of the class statement.                     *)
(*                                                                         *)
(* Every evaluation returns a SET of configurations [r, c, ...]: r is the  *)
(* outcome ("True", "False", or the name of the exception raised), c the   *)
(* state of the abstract-base-class caches afterwards. The set has more    *)
(* than one element where the source iterates over a set or frozenset,     *)
(* whose order is arbitrary.                                               *)
(***************************************************************************)
EXTENDS Integers, Sequences, FiniteSets, TLC

VARIABLES
    cache,      \* weak caches of collections.Mapping / collections.Callable
    before,     \* the caches as they were when the last operation started
    opName,     \* the operation performed last
    argA,       \* its first type operand  (cls of issubclass, first of X[A, B])
    argB,       \* its second type operand (self of issubclass / isinstance)
    argV,       \* its value operand (instance of isinstance)
    outcome,    \* "True" | "False" | "Returned" | an exception name | "none"
    ret,        \* the type a construction returned
    calls,      \* the component checks the operation made, in order
    verify      \* the module flag veripy.verify

vars == <<cache, before, opName, argA, argB, argV, outcome, ret, calls, verify>>

(***************************************************************************)
(* Native classes                                                          *)
(***************************************************************************)

\* class A: pass / class B(A): pass / class C(A): pass stand for user classes.
ClassNames ==
    {"object", "A", "B", "C", "int", "bool", "str", "NoneType",
     "tuple", "dict", "function"}

\* __mro__ of each native class, as a set of names.
Mro(n) ==
    CASE n = "B"    -> {"B", "A", "object"}
      [] n = "C"    -> {"C", "A", "object"}
      [] n = "bool" -> {"bool", "int", "object"}
      [] OTHER      -> {n, "object"}

Class(n) == [kind |-> "class", name |-> n]

Bool(b) == IF b THEN "True" ELSE "False"

IsExc(r) == r \notin {"True", "False", "Returned"}

(***************************************************************************)
(* Type descriptors                                                        *)
(***************************************************************************)

\* Things that may be written as a type argument without being a type.
NoneValue == [kind |-> "None"]          \* None, accepted instead of NoneType
Ellipsis  == [kind |-> "Ellipsis"]      \* ..., the open-ended marker
NonType   == [kind |-> "nontype"]       \* any other non-type object, e.g. 5

\* class Union / Intersection: __uniontypes__ = None, then a frozenset.
BareUnion        == [kind |-> "Union", param |-> FALSE, uniontypes |-> {}]
MkUnion(S)       == [kind |-> "Union", param |-> TRUE, uniontypes |-> S]
BareIntersection == [kind |-> "Intersection", param |-> FALSE, intersecttypes |-> {}]
MkIntersection(S) == [kind |-> "Intersection", param |-> TRUE, intersecttypes |-> S]

\* class Tuple: __tupletypes__ = None, __strict__ = True.
BareTuple == [kind |-> "Tuple", param |-> FALSE, tupletypes |-> <<>>, strict |-> TRUE]
MkTuple(ts, strict) ==
    [kind |-> "Tuple", param |-> TRUE, tupletypes |-> ts, strict |-> strict]

\* class Record: __recordtypes__ = None, then an ordered mapping, here the
\* sequence of its items [k, t] in insertion order, keys distinct.
BareRecord == [kind |-> "Record", param |-> FALSE, recordtypes |-> <<>>, strict |-> TRUE]
MkRecord(items, strict) ==
    [kind |-> "Record", param |-> TRUE, recordtypes |-> items, strict |-> strict]
Item(k, t) == [k |-> k, t |-> t]

\* class HasAttrs: __attrtypes__ = None, then an ordered mapping.
BareHasAttrs == [kind |-> "HasAttrs", param |-> FALSE, attrtypes |-> <<>>]
MkHasAttrs(items) == [kind |-> "HasAttrs", param |-> TRUE, attrtypes |-> items]

\* class Callable: __argtypes__ = None, __returntype__ = None.
BareCallable ==
    [kind |-> "Callable", param |-> FALSE, argtypes |-> <<>>, returntype |-> NoneValue]
MkCallable(args, r) ==
    [kind |-> "Callable", param |-> TRUE, argtypes |-> args, returntype |-> r]

\* class Eq, Ne, Ge, Gt, Le, Lt: one kind, the operator a keyword of the class
\* statement; __hasvalue__ = False, __value__ = None (here 0 when unset).
BareComparison(op) ==
    [kind |-> "Comparison", operator |-> op, hasvalue |-> FALSE, value |-> 0]
MkComparison(op, v) ==
    [kind |-> "Comparison", operator |-> op, hasvalue |-> TRUE, value |-> v]

\* class Satisfies: __predicate__ = None, then a predicate (named here).
BareSatisfies == [kind |-> "Satisfies", param |-> FALSE, predicate |-> "None"]
MkSatisfies(p) == [kind |-> "Satisfies", param |-> TRUE, predicate |-> p]

\* isinstance(t, type): every class, native or made by a metaclass.
IsType(t) == t.kind \notin {"None", "Ellipsis", "nontype"}

Range(s) == {s[i] : i \in DOMAIN s}

\* The mapping an ordered item sequence stands for.
Keys(items) == {items[i].k : i \in DOMAIN items}
Lookup(items, k) == (CHOOSE i \in DOMAIN items : items[i].k = k)
TypeAt(items, k) == items[Lookup(items, k)].t

(***************************************************************************)
(* __hash__ and __eq__ of the metaclasses                                  *)
(***************************************************************************)

RECURSIVE HashRaises(_)
\* Whether hash(t) raises: RecordMeta.__hash__ and HasAttrsMeta.__hash__ call
\* .items() on the payload, which is None on the bare class; a tuple hashes
\* its elements. hash(frozenset) reuses the stored element hashes.
HashRaises(t) ==
    CASE t.kind = "Tuple"    -> \E i \in DOMAIN t.tupletypes : HashRaises(t.tupletypes[i])
      [] t.kind = "Record"   ->
            \/ ~t.param
            \/ \E i \in DOMAIN t.recordtypes : HashRaises(t.recordtypes[i].t)
      [] t.kind = "HasAttrs" ->
            \/ ~t.param
            \/ \E i \in DOMAIN t.attrtypes : HashRaises(t.attrtypes[i].t)
      [] t.kind = "Callable" ->
            \/ \E i \in DOMAIN t.argtypes : HashRaises(t.argtypes[i])
            \/ t.param /\ HashRaises(t.returntype)
      [] OTHER -> FALSE

RECURSIVE HashKey(_)
\* What hash(t) is computed from: two types hash alike iff their keys agree.
HashKey(t) ==
    CASE t.kind = "Union" ->
            [kind |-> "Union", param |-> t.param,
             of |-> {HashKey(m) : m \in t.uniontypes}]
      [] t.kind = "Intersection" ->
            [kind |-> "Intersection", param |-> t.param,
             of |-> {HashKey(m) : m \in t.intersecttypes}]
      [] t.kind = "Tuple" ->
            [kind |-> "Tuple", param |-> t.param, strict |-> t.strict,
             of |-> [i \in DOMAIN t.tupletypes |-> HashKey(t.tupletypes[i])]]
      [] t.kind = "Record" ->
            [kind |-> "Record", strict |-> t.strict,
             of |-> {[k |-> it.k, h |-> HashKey(it.t)] : it \in Range(t.recordtypes)}]
      [] t.kind = "HasAttrs" ->
            [kind |-> "HasAttrs",
             of |-> {[k |-> it.k, h |-> HashKey(it.t)] : it \in Range(t.attrtypes)}]
      [] t.kind = "Callable" ->
            [kind |-> "Callable", param |-> t.param,
             of |-> [i \in DOMAIN t.argtypes |-> HashKey(t.argtypes[i])],
             r |-> IF t.param THEN HashKey(t.returntype) ELSE NoneValue]
      [] t.kind = "Comparison" ->
            \* hash(self.__hasvalue__) ^ hash(self.__value__): no operator
            [kind |-> "Comparison", hasvalue |-> t.hasvalue, value |-> t.value]
      [] OTHER -> t

SameHash(a, b) == HashKey(a) = HashKey(b)

RECURSIVE PyEq(_, _)
\* a == b on two classes: "True", "False" or the exception raised. The
\* metaclass __eq__ returns NotImplemented for another metaclass, and the
\* comparison then falls back to identity.
PyEqBool(a, b) == IF a = b THEN "True" ELSE PyEq(a, b)

RECURSIVE SeqEq(_, _, _)
\* tuple == tuple from index i: elementwise, the same object equal at once.
SeqEq(s, t, i) ==
    IF Len(s) # Len(t) THEN "False"
    ELSE IF i > Len(s) THEN "True"
    ELSE LET e == PyEqBool(s[i], t[i]) IN
         IF e = "True" THEN SeqEq(s, t, i + 1) ELSE e

\* The outcome of a run of comparisons with outcomes rs, none of which may
\* be skipped: the exception if one raised, else whether one / all held.
AnyOf(rs) ==
    IF \E r \in rs : IsExc(r) THEN CHOOSE r \in rs : IsExc(r)
    ELSE Bool("True" \in rs)
AllOf(rs) ==
    IF \E r \in rs : IsExc(r) THEN CHOOSE r \in rs : IsExc(r)
    ELSE Bool(rs \subseteq {"True"})

\* Whether e is found in the set S, as a hash lookup finds it.
ElemIn(e, S) ==
    IF e \in S THEN "True"
    ELSE AnyOf({PyEq(u, e) : u \in {u \in S : SameHash(u, e)}})

\* set == set: equal sizes and every element of S found in T.
SetEq(S, T) ==
    IF Cardinality(S) # Cardinality(T) THEN "False"
    ELSE AllOf({ElemIn(e, T) : e \in S})

\* dict == dict on two item sequences: same keys, values equal.
DictEq(s, t) ==
    IF Keys(s) # Keys(t) THEN "False"
    ELSE AllOf({PyEqBool(TypeAt(s, k), TypeAt(t, k)) : k \in Keys(s)})

\* OrderedDict == OrderedDict behind two mapping proxies: dict equality and
\* then the same key order.
SameOrder(d, s, t) ==
    IF d # "True" THEN d ELSE Bool(\A i \in DOMAIN s : s[i].k = t[i].k)
OrderedDictEq(s, t) == SameOrder(DictEq(s, t), s, t)

UnionMeta_eq(self, other) ==
    IF self.param # other.param THEN "False"
    ELSE SetEq(self.uniontypes, other.uniontypes)

IntersectionMeta_eq(self, other) ==
    IF self.param # other.param THEN "False"
    ELSE SetEq(self.intersecttypes, other.intersecttypes)

TupleMeta_eq(self, other) ==
    IF self.strict # other.strict THEN "False"
    ELSE IF self.param # other.param THEN "False"
    ELSE SeqEq(self.tupletypes, other.tupletypes, 1)

\* self.__strict__ == other.__strict and ...: inside class RecordMeta the
\* name other.__strict is mangled to other._RecordMeta__strict, an attribute
\* no class has.
RecordMeta_eq(self, other) == "AttributeError"

HasAttrsMeta_eq(self, other) ==
    IF self.param # other.param THEN "False"
    ELSE OrderedDictEq(self.attrtypes, other.attrtypes)

\* a and b, where a is the outcome already known of the left operand.
AndThen(a, self, other) ==
    IF a # "True" \/ ~self.param THEN a
    ELSE PyEq(self.returntype, other.returntype)
CallableMeta_eq(self, other) ==
    IF self.param # other.param THEN "False"
    ELSE AndThen(SeqEq(self.argtypes, other.argtypes, 1), self, other)

\* self.__class__ == other.__class__ compares the metaclasses, which are both
\* ComparisonMeta whatever the operator.
ComparisonMeta_eq(self, other) ==
    Bool(self.hasvalue = other.hasvalue /\ self.value = other.value)

SatisfiesMeta_eq(self, other) == Bool(self.predicate = other.predicate)

PyEq(a, b) ==
    IF a.kind # b.kind THEN "False"
    ELSE CASE a.kind = "Union"        -> UnionMeta_eq(a, b)
           [] a.kind = "Intersection" -> IntersectionMeta_eq(a, b)
           [] a.kind = "Tuple"        -> TupleMeta_eq(a, b)
           [] a.kind = "Record"       -> RecordMeta_eq(a, b)
           [] a.kind = "HasAttrs"     -> HasAttrsMeta_eq(a, b)
           [] a.kind = "Callable"     -> CallableMeta_eq(a, b)
           [] a.kind = "Comparison"   -> ComparisonMeta_eq(a, b)
           [] a.kind = "Satisfies"    -> SatisfiesMeta_eq(a, b)
           [] OTHER                   -> Bool(a = b)

\* set.add(t): hash t, then leave the set alone if t is found in it.
Added(S, t, found) ==
    IF IsExc(found) THEN [r |-> found, val |-> S]
    ELSE [r |-> "Returned", val |-> IF found = "True" THEN S ELSE S \cup {t}]
SetAdd(S, t) ==
    IF HashRaises(t) THEN [r |-> "AttributeError", val |-> S]
    ELSE Added(S, t, ElemIn(t, S))


(***************************************************************************)
(* issubclass                                                              *)
(***************************************************************************)

\* collections.Mapping and collections.Callable, the two abstract base
\* classes the source tests against.
Abc(n) == [kind |-> "abc", name |-> n]

EmptyCache == [Mapping |-> {}, Callable |-> {}]

\* The native class whose subclasses each abstract base class accepts: dict
\* is registered as a Mapping; a class is Callable when its instances have
\* __call__, as functions do.
AbcNative(abc) == IF abc = "Mapping" THEN "dict" ELSE "function"

\* One issubclass or isinstance call as the log records it.
Call(x, y, r) == [cls |-> x, self |-> y, r |-> r]

\* A class made by a metaclass has the bases of the bare class: (object,).
MroNames(cls) == IF cls.kind = "class" THEN Mro(cls.name) ELSE {"object"}

\* type.__subclasscheck__(self, cls), reached through super(): self in
\* cls.__mro__.
type_subclasscheck(self, cls) ==
    \/ self = cls
    \/ self.kind = "class" /\ self.name \in MroNames(cls)

\* issubclass(cls, collections.Mapping) and issubclass(cls,
\* collections.Callable). ABCMeta looks cls up in the weak set of classes it
\* has already answered for: that hashes cls, and compares it (==) with a
\* cached class of the same hash. No descriptor class is a Mapping or a
\* Callable, so the answer is False when the lookup does not raise. Only the
\* cached classes whose == raises are kept in c: the others change nothing.
abc_subclasscheck(abc, cls, c) ==
    IF cls.kind = "class"
    THEN [r |-> Bool(AbcNative(abc) \in Mro(cls.name)), c |-> c]
    ELSE IF HashRaises(cls) THEN [r |-> "AttributeError", c |-> c]
    ELSE IF \E e \in c[abc] : SameHash(e, cls) /\ IsExc(PyEq(e, cls))
    THEN [r |-> "AttributeError", c |-> c]
    ELSE [r |-> "False",
          c |-> IF IsExc(PyEq(cls, cls)) THEN [c EXCEPT ![abc] = @ \cup {cls}] ELSE c]

RECURSIVE Sub(_, _, _)
RECURSIVE subclasscheck(_, _, _)
RECURSIVE AnyPairs(_, _, _)
RECURSIVE AllPairs(_, _, _)
RECURSIVE AllSeq(_, _, _, _)

Done(r, c, log) == [r |-> r, c |-> c, log |-> log]

\* any(issubclass(p.cls, p.self) for p in P), P iterated in any order.
AnyPairs(P, c, log) ==
    IF P = {} THEN {Done("False", c, log)}
    ELSE UNION {UNION {
            LET l2 == Append(log, Call(p.cls, p.self, x.r)) IN
            IF x.r = "False" THEN AnyPairs(P \ {p}, x.c, l2)
            ELSE {Done(x.r, x.c, l2)}
         : x \in Sub(p.cls, p.self, c)} : p \in P}

\* all(issubclass(p.cls, p.self) for p in P), P iterated in any order.
AllPairs(P, c, log) ==
    IF P = {} THEN {Done("True", c, log)}
    ELSE UNION {UNION {
            LET l2 == Append(log, Call(p.cls, p.self, x.r)) IN
            IF x.r = "True" THEN AllPairs(P \ {p}, x.c, l2)
            ELSE {Done(x.r, x.c, l2)}
         : x \in Sub(p.cls, p.self, c)} : p \in P}

\* all(issubclass(q[i].cls, q[i].self) for i in order), inside try/except
\* LookupError: an entry with miss set stands for a key the other mapping
\* lacks, and ends the check with False.
AllSeq(q, i, c, log) ==
    IF i > Len(q) THEN {Done("True", c, log)}
    ELSE IF q[i].miss THEN {Done("False", c, log)}
    ELSE UNION {
            LET l2 == Append(log, Call(q[i].cls, q[i].self, x.r)) IN
            IF x.r = "True" THEN AllSeq(q, i + 1, x.c, l2)
            ELSE {Done(x.r, x.c, l2)}
         : x \in Sub(q[i].cls, q[i].self, c)}

Pair(x, y) == [cls |-> x, self |-> y, miss |-> FALSE]
Missing == [cls |-> NoneValue, self |-> NoneValue, miss |-> TRUE]

UnionMeta_subclasscheck(self, cls, c) ==
    IF ~self.param THEN {Done("TypeError", c, <<>>)}
    ELSE IF cls.kind = "Union"
    THEN IF ~cls.param THEN {Done("TypeError", c, <<>>)}
         ELSE AllPairs({Pair(t, self) : t \in cls.uniontypes}, c, <<>>)
    ELSE AnyPairs({Pair(cls, t) : t \in self.uniontypes}, c, <<>>)

RECURSIVE IntersectionLoop(_, _, _, _)
\* for t1 in self.__intersecttypes__:
\*     if all(not issubclass(t2, t1) for t2 in cls.__intersecttypes__): return False
\* return True
IntersectionLoop(rest, cls, c, log) ==
    IF rest = {} THEN {Done("True", c, log)}
    ELSE UNION {UNION {
            IF x.r = "False" THEN {Done("False", x.c, x.log)}
            ELSE IF x.r = "True" THEN IntersectionLoop(rest \ {t1}, cls, x.c, x.log)
            ELSE {x}
         : x \in AnyPairs({Pair(t2, t1) : t2 \in cls.intersecttypes}, c, log)}
         : t1 \in rest}

IntersectionMeta_subclasscheck(self, cls, c) ==
    IF ~self.param THEN {Done("TypeError", c, <<>>)}
    ELSE IF cls.kind = "Intersection"
    THEN IF ~cls.param THEN {Done("TypeError", c, <<>>)}
         ELSE IntersectionLoop(self.intersecttypes, cls, c, <<>>)
    ELSE AllPairs({Pair(cls, t) : t \in self.intersecttypes}, c, <<>>)

\* TupleMeta.__subclasscheck__ after issubclass(cls, tuple) returned native.
TupleMeta_compare(self, cls, c, native, log) ==
    IF native = "True" THEN {Done("True", c, log)}
    ELSE IF cls.kind # "Tuple" THEN {Done(Bool(type_subclasscheck(self, cls)), c, log)}
    ELSE IF ~self.param THEN {Done("True", c, log)}
    ELSE IF ~cls.param THEN {Done("False", c, log)}
    ELSE IF Len(cls.tupletypes) < Len(self.tupletypes) THEN {Done("False", c, log)}
    ELSE IF self.strict /\ (~cls.strict \/ Len(self.tupletypes) # Len(cls.tupletypes))
    THEN {Done("False", c, log)}
    ELSE AllSeq([i \in DOMAIN self.tupletypes |->
                    Pair(cls.tupletypes[i], self.tupletypes[i])], 1, c, log)

Logged(x, y, r) == <<Call(x, y, r)>>

TupleMeta_native(self, cls, c, native) ==
    TupleMeta_compare(self, cls, c, native, Logged(cls, Class("tuple"), native))

TupleMeta_subclasscheck(self, cls, c) ==
    TupleMeta_native(self, cls, c, Bool("tuple" \in MroNames(cls)))

\* cls.__recordtypes__[k] for each k, t of self's items, in self's order.
ByKey(selfItems, clsItems) ==
    [i \in DOMAIN selfItems |->
        IF selfItems[i].k \in Keys(clsItems)
        THEN Pair(TypeAt(clsItems, selfItems[i].k), selfItems[i].t)
        ELSE Missing]

\* RecordMeta.__subclasscheck__ after issubclass(cls, collections.Mapping)
\* returned r and left the caches c.
RecordMeta_compare(self, cls, r, c, log) ==
    IF r # "False" THEN {Done(r, c, log)}
    ELSE IF cls.kind # "Record" THEN {Done(Bool(type_subclasscheck(self, cls)), c, log)}
    ELSE IF ~self.param THEN {Done("True", c, log)}
    ELSE IF ~cls.param THEN {Done("False", c, log)}
    ELSE IF Len(cls.recordtypes) < Len(self.recordtypes) THEN {Done("False", c, log)}
    ELSE IF self.strict /\ (~cls.strict \/ Len(self.recordtypes) # Len(cls.recordtypes))
    THEN {Done("False", c, log)}
    ELSE AllSeq(ByKey(self.recordtypes, cls.recordtypes), 1, c, log)

RecordMeta_mapping(self, cls, pre) ==
    RecordMeta_compare(self, cls, pre.r, pre.c, Logged(cls, Abc("Mapping"), pre.r))

RecordMeta_subclasscheck(self, cls, c) ==
    RecordMeta_mapping(self, cls, abc_subclasscheck("Mapping", cls, c))

HasAttrsMeta_subclasscheck(self, cls, c) ==
    IF cls.kind # "HasAttrs" THEN {Done(Bool(type_subclasscheck(self, cls)), c, <<>>)}
    ELSE IF ~self.param THEN {Done("True", c, <<>>)}
    ELSE IF ~cls.param THEN {Done("False", c, <<>>)}
    ELSE AllSeq(ByKey(self.attrtypes, cls.attrtypes), 1, c, <<>>)

\* The argument types, after the return types compared as x and log l2.
CallableMeta_args(self, cls, r, c, l2) ==
    IF r # "True" THEN {Done(r, c, l2)}
    ELSE IF Len(cls.argtypes) # Len(self.argtypes) THEN {Done("False", c, l2)}
    ELSE AllSeq([i \in DOMAIN self.argtypes |->
                    Pair(self.argtypes[i], cls.argtypes[i])], 1, c, l2)

\* CallableMeta.__subclasscheck__ after issubclass(cls, collections.Callable)
\* returned r and left the caches c.
CallableMeta_compare(self, cls, r, c, log) ==
    IF r # "False" THEN {Done(r, c, log)}
    ELSE IF cls.kind # "Callable" THEN {Done(Bool(type_subclasscheck(self, cls)), c, log)}
    ELSE IF ~self.param THEN {Done("True", c, log)}
    ELSE IF ~cls.param THEN {Done("False", c, log)}
    ELSE UNION {CallableMeta_args(self, cls, x.r, x.c,
                    Append(log, Call(cls.returntype, self.returntype, x.r)))
                : x \in Sub(cls.returntype, self.returntype, c)}

CallableMeta_callable(self, cls, pre) ==
    CallableMeta_compare(self, cls, pre.r, pre.c, Logged(cls, Abc("Callable"), pre.r))

CallableMeta_subclasscheck(self, cls, c) ==
    CallableMeta_callable(self, cls, abc_subclasscheck("Callable", cls, c))

\* What type.__subclasscheck__ would answer: a class is a subclass of itself.
ComparisonMeta_subclasscheck_inherited(self, cls, c) ==
    {Done(Bool(type_subclasscheck(self, cls)), c, <<>>)}

ComparisonMeta_subclasscheck(self, cls, c) == {Done("False", c, <<>>)}

SatisfiesMeta_subclasscheck(self, cls, c) == {Done("False", c, <<>>)}

\* issubclass(cls, self) when type(self) is a metaclass of the package: its
\* __subclasscheck__, with the log of the calls it made.
subclasscheck(self, cls, c) ==
    CASE self.kind = "Union"        -> UnionMeta_subclasscheck(self, cls, c)
      [] self.kind = "Intersection" -> IntersectionMeta_subclasscheck(self, cls, c)
      [] self.kind = "Tuple"        -> TupleMeta_subclasscheck(self, cls, c)
      [] self.kind = "Record"       -> RecordMeta_subclasscheck(self, cls, c)
      [] self.kind = "HasAttrs"     -> HasAttrsMeta_subclasscheck(self, cls, c)
      [] self.kind = "Callable"     -> CallableMeta_subclasscheck(self, cls, c)
      [] self.kind = "Comparison"   -> ComparisonMeta_subclasscheck(self, cls, c)
      [] self.kind = "Satisfies"    -> SatisfiesMeta_subclasscheck(self, cls, c)
      [] self.kind = "abc"          ->
            {Done(x.r, x.c, <<>>) : x \in {abc_subclasscheck(self.name, cls, c)}}
      [] OTHER -> {Done(Bool(self.name \in MroNames(cls)), c, <<>>)}

\* issubclass(cls, self): the outcomes and the caches they leave.
Sub(cls, self, c) == {[r |-> x.r, c |-> x.c] : x \in subclasscheck(self, cls, c)}


(***************************************************************************)
(* Union[...] and Intersection[...]                                        *)
(***************************************************************************)

RECURSIVE Perms(_)
\* The orders in which a frozenset may be iterated.
Perms(S) ==
    IF S = {} THEN {<<>>}
    ELSE UNION {{<<x>> \o q : q \in Perms(S \ {x})} : x \in S}

\* What a generator yields before it raises.
RaiseTypeError == [kind |-> "raise"]

Built(r, val, c) == [r |-> r, val |-> val, c |-> c]
WithCache(a, c) == [r |-> a.r, val |-> a.val, c |-> c]

RECURSIVE expand_unions(_, _)
\* The sequences expand_unions() may yield for types[i..]: a parameterised
\* union is replaced by its members, an unparameterised one raises when the
\* generator reaches it.
expand_unions(types, i) ==
    IF i > Len(types) THEN {<<>>}
    ELSE IF types[i].kind = "Union"
    THEN IF ~types[i].param THEN {<<RaiseTypeError>>}
         ELSE {q \o rest : q \in Perms(types[i].uniontypes),
                           rest \in expand_unions(types, i + 1)}
    ELSE {<<types[i]>> \o rest : rest \in expand_unions(types, i + 1)}

RECURSIVE UnionCheck(_, _, _, _)
\* for t2 in set(uniontypes): break if t1 <= t2, discard t2 if t2 <= t1;
\* else: uniontypes.add(t1). snap is what is left of the copy iterated over,
\* cur the set being reduced.
UnionCheck(t1, snap, cur, c) ==
    IF snap = {}
    THEN {WithCache(SetAdd(cur, t1), c)}
    ELSE UNION {UNION {
            IF x.r = "True" THEN {Built("Returned", cur, x.c)}
            ELSE IF IsExc(x.r) THEN {Built(x.r, cur, x.c)}
            ELSE UNION {
                    IF IsExc(y.r) THEN {Built(y.r, cur, y.c)}
                    ELSE UnionCheck(t1, snap \ {t2},
                                    IF y.r = "True" THEN cur \ {t2} ELSE cur, y.c)
                 : y \in Sub(t2, t1, x.c)}
         : x \in Sub(t1, t2, c)} : t2 \in snap}

RECURSIVE UnionReduce(_, _, _, _)
\* for t1 in expand_unions(): ..., then the class returned.
UnionReduce(q, i, cur, c) ==
    IF i > Len(q)
    THEN {Built("Returned",
                IF Cardinality(cur) = 1 THEN CHOOSE t \in cur : TRUE ELSE MkUnion(cur),
                c)}
    ELSE IF q[i].kind = "raise" THEN {Built("TypeError", NoneValue, c)}
    ELSE LET t1 == IF q[i] = NoneValue THEN Class("NoneType") ELSE q[i] IN
         IF ~IsType(t1) THEN {Built("TypeError", NoneValue, c)}
         ELSE UNION {
                 IF x.r = "Returned" THEN UnionReduce(q, i + 1, x.val, x.c)
                 ELSE {Built(x.r, NoneValue, x.c)}
              : x \in UnionCheck(t1, cur, cur, c)}

\* UnionMeta.__getitem__(self, types), types the sequence of arguments.
UnionMeta_getitem(self, types, c) ==
    IF self.param THEN {Built("TypeError", NoneValue, c)}
    ELSE IF Len(types) = 0 THEN {Built("TypeError", NoneValue, c)}
    ELSE UNION {UnionReduce(q, 1, {}, c) : q \in expand_unions(types, 1)}

RECURSIVE expand_intersections(_, _)
expand_intersections(types, i) ==
    IF i > Len(types) THEN {<<>>}
    ELSE IF types[i].kind = "Intersection"
    THEN IF ~types[i].param THEN {<<RaiseTypeError>>}
         ELSE {q \o rest : q \in Perms(types[i].intersecttypes),
                           rest \in expand_intersections(types, i + 1)}
    ELSE {<<types[i]>> \o rest : rest \in expand_intersections(types, i + 1)}

RECURSIVE IntersectionCheck(_, _, _, _)
\* for t2 in set(intersecttypes): break if t2 <= t1, discard t2 if t1 <= t2;
\* else: intersecttypes.add(t1).
IntersectionCheck(t1, snap, cur, c) ==
    IF snap = {}
    THEN {WithCache(SetAdd(cur, t1), c)}
    ELSE UNION {UNION {
            IF x.r = "True" THEN {Built("Returned", cur, x.c)}
            ELSE IF IsExc(x.r) THEN {Built(x.r, cur, x.c)}
            ELSE UNION {
                    IF IsExc(y.r) THEN {Built(y.r, cur, y.c)}
                    ELSE IntersectionCheck(t1, snap \ {t2},
                                    IF y.r = "True" THEN cur \ {t2} ELSE cur, y.c)
                 : y \in Sub(t1, t2, x.c)}
         : x \in Sub(t2, t1, c)} : t2 \in snap}

RECURSIVE IntersectionReduce(_, _, _, _)
IntersectionReduce(q, i, cur, c) ==
    IF i > Len(q)
    THEN {Built("Returned",
                IF Cardinality(cur) = 1 THEN CHOOSE t \in cur : TRUE
                ELSE MkIntersection(cur),
                c)}
    ELSE IF q[i].kind = "raise" THEN {Built("TypeError", NoneValue, c)}
    ELSE LET t1 == IF q[i] = NoneValue THEN Class("NoneType") ELSE q[i] IN
         IF ~IsType(t1) THEN {Built("TypeError", NoneValue, c)}
         ELSE UNION {
                 IF x.r = "Returned" THEN IntersectionReduce(q, i + 1, x.val, x.c)
                 ELSE {Built(x.r, NoneValue, x.c)}
              : x \in IntersectionCheck(t1, cur, cur, c)}

\* IntersectionMeta.__getitem__(self, types).
IntersectionMeta_getitem(self, types, c) ==
    IF self.param THEN {Built("TypeError", NoneValue, c)}
    ELSE IF Len(types) = 0 THEN {Built("TypeError", NoneValue, c)}
    ELSE UNION {IntersectionReduce(q, 1, {}, c) : q \in expand_intersections(types, 1)}


(***************************************************************************)
(* Values and isinstance                                                   *)
(***************************************************************************)

\* The values checked: ints, bools, strings, None, tuples, dicts and
\* functions. A dict is the sequence of its items [k, v], keys distinct; a
\* function is its signature.
IntVal(n)   == [kind |-> "int", n |-> n]
BoolVal(b)  == [kind |-> "bool", n |-> b]
StrVal(x)   == [kind |-> "str", s |-> x]
NoneVal     == [kind |-> "NoneType"]
TupleVal(q) == [kind |-> "tuple", elems |-> q]
DictVal(q)  == [kind |-> "dict", entries |-> q]
Entry(k, v) == [k |-> k, v |-> v]
FuncVal(params, r) == [kind |-> "function", params |-> params, return_annotation |-> r]

\* inspect.Parameter: kind is "positional" (POSITIONAL_ONLY or
\* POSITIONAL_OR_KEYWORD) or "keyword_only"; annotation and default may be
\* Parameter.empty.
Empty == [kind |-> "empty"]
Param(kind, annotation, hasdefault) ==
    [kind |-> kind, annotation |-> annotation, hasdefault |-> hasdefault]

\* type(v).__mro__, and the length and truth value of v.
TypeName(v) == v.kind
PyLen(v) == IF v.kind = "tuple" THEN Len(v.elems) ELSE Len(v.entries)
Truthy(v) ==
    CASE v.kind \in {"int", "bool"} -> v.n # 0
      [] v.kind = "str"      -> v.s # ""
      [] v.kind = "NoneType" -> FALSE
      [] v.kind = "tuple"    -> v.elems # <<>>
      [] v.kind = "dict"     -> v.entries # <<>>
      [] OTHER               -> TRUE

EntryKeys(q) == {q[i].k : i \in DOMAIN q}
ValueAt(q, k) == q[CHOOSE i \in DOMAIN q : q[i].k = k].v

\* operator.eq / ne / ge / gt / le / lt (instance, value) for an int value:
\* numbers compare by value, anything else is unequal and unordered.
Compare(op, v, value) ==
    IF v.kind \in {"int", "bool"}
    THEN CASE op = "eq" -> Bool(v.n = value)
           [] op = "ne" -> Bool(v.n # value)
           [] op = "ge" -> Bool(v.n >= value)
           [] op = "gt" -> Bool(v.n > value)
           [] op = "le" -> Bool(v.n <= value)
           [] OTHER     -> Bool(v.n < value)
    ELSE CASE op = "eq" -> "False"
           [] op = "ne" -> "True"
           [] OTHER     -> "TypeError"

RECURSIVE Inst(_, _, _)
RECURSIVE instancecheck(_, _, _)
RECURSIVE AnyInst(_, _, _, _)
RECURSIVE AllInst(_, _, _, _)
RECURSIVE AllInstSeq(_, _, _, _)

\* any(isinstance(v, t) for t in T), T iterated in any order.
AnyInst(v, T, c, log) ==
    IF T = {} THEN {Done("False", c, log)}
    ELSE UNION {UNION {
            IF x.r = "False"
            THEN AnyInst(v, T \ {t}, x.c, Append(log, Call(v, t, x.r)))
            ELSE {Done(x.r, x.c, Append(log, Call(v, t, x.r)))}
         : x \in Inst(v, t, c)} : t \in T}

\* all(isinstance(v, t) for t in T), T iterated in any order.
AllInst(v, T, c, log) ==
    IF T = {} THEN {Done("True", c, log)}
    ELSE UNION {UNION {
            IF x.r = "True"
            THEN AllInst(v, T \ {t}, x.c, Append(log, Call(v, t, x.r)))
            ELSE {Done(x.r, x.c, Append(log, Call(v, t, x.r)))}
         : x \in Inst(v, t, c)} : t \in T}

\* all(isinstance(q[i].cls, q[i].self) for i in order) inside try/except
\* LookupError: an entry with miss set is a key the instance lacks.
AllInstSeq(q, i, c, log) ==
    IF i > Len(q) THEN {Done("True", c, log)}
    ELSE IF q[i].miss THEN {Done("False", c, log)}
    ELSE UNION {
            IF x.r = "True"
            THEN AllInstSeq(q, i + 1, x.c, Append(log, Call(q[i].cls, q[i].self, x.r)))
            ELSE {Done(x.r, x.c, Append(log, Call(q[i].cls, q[i].self, x.r)))}
         : x \in Inst(q[i].cls, q[i].self, c)}

\* The same without the test for the bare class: any() over no types.
UnionMeta_instancecheck_unguarded(self, instance, c) ==
    AnyInst(instance, self.uniontypes, c, <<>>)

UnionMeta_instancecheck(self, instance, c) ==
    IF ~self.param THEN {Done("TypeError", c, <<>>)}
    ELSE AnyInst(instance, self.uniontypes, c, <<>>)

IntersectionMeta_instancecheck(self, instance, c) ==
    IF ~self.param THEN {Done("TypeError", c, <<>>)}
    ELSE AllInst(instance, self.intersecttypes, c, <<>>)

\* zip(instance, self.__tupletypes__): as many pairs as the shorter has.
TupleMeta_instancecheck(self, instance, c) ==
    IF "tuple" \notin Mro(TypeName(instance)) THEN {Done("False", c, <<>>)}
    ELSE IF ~self.param THEN {Done("True", c, <<>>)}
    ELSE IF PyLen(instance) < Len(self.tupletypes) THEN {Done("False", c, <<>>)}
    ELSE IF self.strict /\ PyLen(instance) # Len(self.tupletypes)
    THEN {Done("False", c, <<>>)}
    ELSE AllInstSeq([i \in DOMAIN self.tupletypes |->
                        Pair(instance.elems[i], self.tupletypes[i])], 1, c, <<>>)

\* instance[k] for each k, t of self's items, in self's order.
ByValueKey(selfItems, entries) ==
    [i \in DOMAIN selfItems |->
        IF selfItems[i].k \in EntryKeys(entries)
        THEN Pair(ValueAt(entries, selfItems[i].k), selfItems[i].t)
        ELSE Missing]

RecordMeta_instancecheck(self, instance, c) ==
    IF "dict" \notin Mro(TypeName(instance)) THEN {Done("False", c, <<>>)}
    ELSE IF ~self.param THEN {Done("True", c, <<>>)}
    ELSE IF PyLen(instance) < Len(self.recordtypes) THEN {Done("False", c, <<>>)}
    ELSE IF self.strict /\ PyLen(instance) # Len(self.recordtypes)
    THEN {Done("False", c, <<>>)}
    ELSE AllInstSeq(ByValueKey(self.recordtypes, instance.entries), 1, c, <<>>)

\* None of the values modelled has an attribute named by a descriptor, so
\* getattr raises AttributeError on the first item.
HasAttrsMeta_instancecheck(self, instance, c) ==
    IF ~self.param THEN {Done("True", c, <<>>)} ELSE {Done("False", c, <<>>)}

ComparisonMeta_instancecheck(self, instance, c) ==
    IF ~self.hasvalue THEN {Done("TypeError", c, <<>>)}
    ELSE {Done(Compare(self.operator, instance, self.value), c, <<>>)}

\* The one predicate modelled is lambda x: x.
SatisfiesMeta_instancecheck(self, instance, c) ==
    IF ~self.param THEN {Done("TypeError", c, <<>>)}
    ELSE {Done(Bool(Truthy(instance)), c, <<>>)}

\* An annotation as the check reads it: None stands for type(None).
Annot(a) == IF a.kind = "None" THEN Class("NoneType") ELSE a

\* Whether the check verifies annotation a: present, and None or a type.
Verified(a) == a.kind # "empty" /\ IsType(Annot(a))

\* The parameters of kind POSITIONAL_ONLY or POSITIONAL_OR_KEYWORD, in order.
Positional(params) == SelectSeq(params, LAMBDA p : p.kind = "positional")

RECURSIVE CallableMeta_params(_, _, _, _, _)
\* The loop over self.__argtypes__ from the i-th on, popping one positional
\* parameter for each, and the test of the defaults of those left over.
CallableMeta_params(self, positional, i, c, log) ==
    IF i > Len(self.argtypes)
    THEN {Done(Bool(\A j \in DOMAIN positional : j >= i => positional[j].hasdefault),
               c, log)}
    ELSE IF i > Len(positional) THEN {Done("False", c, log)}
    ELSE IF ~Verified(positional[i].annotation)
    THEN CallableMeta_params(self, positional, i + 1, c, log)
    ELSE UNION {
            IF x.r = "True"
            THEN CallableMeta_params(self, positional, i + 1, x.c,
                    Append(log, Call(self.argtypes[i], Annot(positional[i].annotation), x.r)))
            ELSE {Done(x.r, x.c,
                    Append(log, Call(self.argtypes[i], Annot(positional[i].annotation), x.r)))}
         : x \in Sub(self.argtypes[i], Annot(positional[i].annotation), c)}

\* After issubclass(returntype, self.__returntype__) returned r.
CallableMeta_return(self, instance, r, c, log) ==
    IF r # "True" THEN {Done(r, c, log)}
    ELSE CallableMeta_params(self, Positional(instance.params), 1, c, log)

CallableMeta_instancecheck(self, instance, c) ==
    IF instance.kind # "function" THEN {Done("False", c, <<>>)}
    ELSE IF ~self.param THEN {Done("True", c, <<>>)}
    ELSE IF ~Verified(instance.return_annotation)
    THEN CallableMeta_params(self, Positional(instance.params), 1, c, <<>>)
    ELSE UNION {CallableMeta_return(self, instance, x.r, x.c,
                    Logged(Annot(instance.return_annotation), self.returntype, x.r))
                : x \in Sub(Annot(instance.return_annotation), self.returntype, c)}

\* isinstance(instance, self): the __instancecheck__ of type(self), with the
\* log of the calls it made.
instancecheck(self, instance, c) ==
    CASE self.kind = "Union"        -> UnionMeta_instancecheck(self, instance, c)
      [] self.kind = "Intersection" -> IntersectionMeta_instancecheck(self, instance, c)
      [] self.kind = "Tuple"        -> TupleMeta_instancecheck(self, instance, c)
      [] self.kind = "Record"       -> RecordMeta_instancecheck(self, instance, c)
      [] self.kind = "HasAttrs"     -> HasAttrsMeta_instancecheck(self, instance, c)
      [] self.kind = "Callable"     -> CallableMeta_instancecheck(self, instance, c)
      [] self.kind = "Comparison"   -> ComparisonMeta_instancecheck(self, instance, c)
      [] self.kind = "Satisfies"    -> SatisfiesMeta_instancecheck(self, instance, c)
      [] OTHER -> {Done(Bool(self.name \in Mro(TypeName(instance))), c, <<>>)}

\* isinstance(v, t): the outcomes and the caches they leave.
Inst(v, t, c) == {[r |-> x.r, c |-> x.c] : x \in instancecheck(t, v, c)}

(***************************************************************************)
(* The type lattice: Union[A, B], Intersection[A, B], issubclass(A, B)     *)
(***************************************************************************)

\* The class a subscription returns when evaluated on its own.
UnionOf(a, b) ==
    (CHOOSE x \in UnionMeta_getitem(BareUnion, <<a, b>>, EmptyCache) : TRUE).val
IntersectionOf(a, b) ==
    (CHOOSE x \in IntersectionMeta_getitem(BareIntersection, <<a, b>>, EmptyCache) : TRUE).val

Eq1 == MkComparison("eq", 1)
Ne1 == MkComparison("ne", 1)
Ge1 == MkComparison("ge", 1)
RecInt  == MkRecord(<<Item("x", Class("int"))>>, TRUE)
RecBool == MkRecord(<<Item("x", Class("bool"))>>, TRUE)
RecY    == MkRecord(<<Item("y", Class("int"))>>, TRUE)
RecEq   == MkRecord(<<Item("x", Eq1)>>, TRUE)

AtomicTypes == {Class(n) : n \in {"object", "A", "B", "C", "int", "bool", "str", "tuple"}}

StructuralTypes ==
    {MkTuple(<<Class("int")>>, TRUE), MkTuple(<<Class("bool")>>, TRUE),
     MkTuple(<<Class("int")>>, FALSE), MkTuple(<<Eq1>>, TRUE),
     MkTuple(<<RecInt, Class("bool")>>, TRUE), MkTuple(<<RecInt, Class("int")>>, TRUE),
     MkTuple(<<RecInt, RecInt>>, TRUE),
     RecInt, RecBool, RecY, RecEq,
     MkHasAttrs(<<Item("x", Class("int"))>>),
     MkCallable(<<Class("int")>>, Class("int")),
     MkCallable(<<Class("bool")>>, Class("int")),
     MkCallable(<<RecInt>>, RecInt),
     BareTuple, BareCallable}

PredicateTypes == {Eq1, Ne1, Ge1, MkSatisfies("truthy")}

CompositeTypes ==
    {UnionOf(Class("B"), Class("C")), UnionOf(Class("A"), Class("int")),
     UnionOf(Eq1, Class("int")), UnionOf(RecInt, Class("int")),
     UnionOf(RecInt, RecY),
     IntersectionOf(Class("B"), Class("C")),
     IntersectionOf(Class("A"), Class("int"))}

LatticeTypes == AtomicTypes \cup StructuralTypes \cup PredicateTypes \cup CompositeTypes

NoValue == [kind |-> "novalue"]

LatticeInit ==
    /\ cache = EmptyCache
    /\ before = EmptyCache
    /\ opName = "none"
    /\ argA \in LatticeTypes
    /\ argB \in LatticeTypes
    /\ argV = NoValue
    /\ outcome = "none"
    /\ ret = NoneValue
    /\ calls = <<>>
    /\ verify = TRUE

\* Union[argA, argB]
DoUnion ==
    \E x \in UnionMeta_getitem(BareUnion, <<argA, argB>>, cache) :
        /\ opName' = "Union"
        /\ outcome' = x.r
        /\ ret' = x.val
        /\ cache' = x.c
        /\ before' = cache
        /\ calls' = <<>>
        /\ UNCHANGED <<argA, argB, argV, verify>>

\* Intersection[argA, argB]
DoIntersection ==
    \E x \in IntersectionMeta_getitem(BareIntersection, <<argA, argB>>, cache) :
        /\ opName' = "Intersection"
        /\ outcome' = x.r
        /\ ret' = x.val
        /\ cache' = x.c
        /\ before' = cache
        /\ calls' = <<>>
        /\ UNCHANGED <<argA, argB, argV, verify>>

\* issubclass(argA, argB)
DoIssubclass ==
    \E x \in subclasscheck(argB, argA, cache) :
        /\ opName' = "issubclass"
        /\ outcome' = x.r
        /\ ret' = NoneValue
        /\ cache' = x.c
        /\ before' = cache
        /\ calls' = x.log
        /\ UNCHANGED <<argA, argB, argV, verify>>

LatticeNext == DoUnion \/ DoIntersection \/ DoIssubclass

SpecLattice == LatticeInit /\ [][LatticeNext]_vars


(***************************************************************************)
(* Membership: isinstance(v, T) for T a Tuple, a Record or a Callable      *)
(***************************************************************************)

CallIntRec == MkCallable(<<Class("int")>>, RecInt)
CallRecRec == MkCallable(<<RecInt, RecInt>>, Class("int"))
CallIntInt == MkCallable(<<Class("int")>>, Class("int"))

\* def f(x: int) -> Record['x': int]
FnIntRec == FuncVal(<<Param("positional", Class("int"), FALSE)>>, RecInt)
\* def g(x: Record['x': int], y: Record['x': int]) -> int
FnRecRec ==
    FuncVal(<<Param("positional", RecInt, FALSE), Param("positional", RecInt, FALSE)>>,
            Class("int"))
\* def h(x: int) -> bool, def h(x: object) -> int, def h(x: bool) -> int
FnIntBool == FuncVal(<<Param("positional", Class("int"), FALSE)>>, Class("bool"))
FnObjInt  == FuncVal(<<Param("positional", Class("object"), FALSE)>>, Class("int"))
FnBoolInt == FuncVal(<<Param("positional", Class("bool"), FALSE)>>, Class("int"))
\* def h(x: int) -> str, def h(x), def h(x: 'int') -> 'str', def h(x: int) -> None
FnIntStr  == FuncVal(<<Param("positional", Class("int"), FALSE)>>, Class("str"))
FnPlain   == FuncVal(<<Param("positional", Empty, FALSE)>>, Empty)
FnQuoted  == FuncVal(<<Param("positional", NonType, FALSE)>>, NonType)
FnIntNone == FuncVal(<<Param("positional", Class("int"), FALSE)>>, NoneValue)
\* def h() -> int, def h(x: int, y: int) -> int, def h(x: int, y: int = 0) -> int,
\* def h(x: int, *, y: int) -> int, def h(*, x: int) -> int
FnNoArgs  == FuncVal(<<>>, Class("int"))
FnTwo     ==
    FuncVal(<<Param("positional", Class("int"), FALSE),
              Param("positional", Class("int"), FALSE)>>, Class("int"))
FnDefault ==
    FuncVal(<<Param("positional", Class("int"), FALSE),
              Param("positional", Class("int"), TRUE)>>, Class("int"))
FnKwOnly  ==
    FuncVal(<<Param("positional", Class("int"), FALSE),
              Param("keyword_only", Class("int"), FALSE)>>, Class("int"))
FnOnlyKw  == FuncVal(<<Param("keyword_only", Class("int"), FALSE)>>, Class("int"))

Functions ==
    {FnIntRec, FnRecRec, FnIntBool, FnObjInt, FnBoolInt, FnIntStr, FnPlain,
     FnQuoted, FnIntNone, FnNoArgs, FnTwo, FnDefault, FnKwOnly, FnOnlyKw}

Scalars == {IntVal(0), IntVal(1), BoolVal(1), StrVal("a"), NoneVal}

Tuples ==
    {TupleVal(<<>>), TupleVal(<<IntVal(1)>>), TupleVal(<<StrVal("a")>>),
     TupleVal(<<IntVal(1), StrVal("a")>>), TupleVal(<<StrVal("a"), IntVal(1)>>),
     TupleVal(<<IntVal(1), IntVal(0)>>), TupleVal(<<IntVal(1), IntVal(1), StrVal("a")>>),
     TupleVal(<<FnIntRec>>), TupleVal(<<FnIntRec, FnIntRec>>),
     TupleVal(<<TupleVal(<<IntVal(1)>>)>>)}

Dicts ==
    {DictVal(<<>>), DictVal(<<Entry("x", IntVal(1))>>), DictVal(<<Entry("x", StrVal("a"))>>),
     DictVal(<<Entry("y", IntVal(1))>>),
     DictVal(<<Entry("x", IntVal(1)), Entry("y", IntVal(0))>>),
     DictVal(<<Entry("y", IntVal(1)), Entry("x", IntVal(1))>>),
     DictVal(<<Entry("x", IntVal(1)), Entry("z", IntVal(1))>>),
     DictVal(<<Entry("x", StrVal("a")), Entry("z", IntVal(1))>>),
     DictVal(<<Entry("x", FnIntRec), Entry("y", FnIntRec)>>),
     DictVal(<<Entry("x", DictVal(<<Entry("x", IntVal(1))>>))>>)}

MemberValues == Scalars \cup Tuples \cup Dicts \cup Functions

TupleTypes ==
    {MkTuple(<<Class("int")>>, TRUE), MkTuple(<<Class("int")>>, FALSE),
     MkTuple(<<Class("int"), Class("str")>>, TRUE),
     MkTuple(<<Class("int"), Class("int")>>, FALSE),
     MkTuple(<<Eq1, Class("int")>>, TRUE), MkTuple(<<Ge1>>, FALSE),
     MkTuple(<<MkTuple(<<Class("int")>>, TRUE)>>, TRUE),
     MkTuple(<<UnionOf(Class("int"), Class("str"))>>, FALSE),
     MkTuple(<<CallIntRec>>, TRUE), MkTuple(<<CallIntRec, CallIntRec>>, TRUE)}

RecordTypes ==
    {RecInt, RecY, RecEq, MkRecord(<<Item("x", Class("int"))>>, FALSE),
     MkRecord(<<Item("x", Class("int")), Item("y", Class("int"))>>, TRUE),
     MkRecord(<<Item("x", Class("int")), Item("y", Class("int"))>>, FALSE),
     MkRecord(<<Item("x", Ge1), Item("y", Class("int"))>>, FALSE),
     MkRecord(<<Item("x", RecInt)>>, TRUE),
     MkRecord(<<Item("x", CallIntRec), Item("y", CallIntRec)>>, TRUE)}

CallableTypes ==
    {CallIntRec, CallRecRec, CallIntInt,
     MkCallable(<<Class("bool")>>, Class("int")),
     MkCallable(<<Class("int"), Class("int")>>, Class("int")),
     MkCallable(<<>>, Class("int")),
     MkCallable(<<Class("int")>>, Class("NoneType")),
     MkCallable(<<Class("int")>>, Class("object"))}

MemberTypes == TupleTypes \cup RecordTypes \cup CallableTypes

MemberInit ==
    /\ cache = EmptyCache
    /\ before = EmptyCache
    /\ opName = "none"
    /\ argA = NoneValue
    /\ argB \in MemberTypes
    /\ argV \in MemberValues
    /\ outcome = "none"
    /\ ret = NoneValue
    /\ calls = <<>>
    /\ verify = TRUE

\* isinstance(argV, argB)
DoIsinstance ==
    \E x \in instancecheck(argB, argV, cache) :
        /\ opName' = "isinstance"
        /\ outcome' = x.r
        /\ ret' = NoneValue
        /\ cache' = x.c
        /\ before' = cache
        /\ calls' = x.log
        /\ UNCHANGED <<argA, argB, argV, verify>>

MemberNext == DoIsinstance

SpecMember == MemberInit /\ [][MemberNext]_vars

(***************************************************************************)
(* Queries on the bare classes and on the comparison types                 *)
(***************************************************************************)

\* operator.eq, ne, ge, gt, le, lt: the keyword of the six class statements.
Operators == {"eq", "ne", "ge", "gt", "le", "lt"}

BareComparisons == {BareComparison(op) : op \in Operators}

BareTypes ==
    {BareUnion, BareIntersection, BareTuple, BareRecord, BareHasAttrs,
     BareCallable, BareSatisfies} \cup BareComparisons

ComparisonTypes == {MkComparison(op, v) : op \in Operators, v \in {0, 1}}

QueryTypes ==
    {Class("int"), Class("bool"), Class("str"), Class("tuple"), Class("dict"),
     Class("function"), Class("object"),
     MkTuple(<<Class("int")>>, TRUE), RecInt, MkHasAttrs(<<Item("x", Class("int"))>>),
     CallIntInt, MkSatisfies("truthy"), UnionOf(Class("int"), Class("str")),
     IntersectionOf(Class("A"), Class("int"))}
        \cup BareTypes \cup ComparisonTypes

QueryValues ==
    Scalars \cup {TupleVal(<<>>), TupleVal(<<IntVal(1)>>), DictVal(<<>>),
                  DictVal(<<Entry("x", IntVal(1))>>), FnPlain, FnIntBool}

QueryInit ==
    /\ cache = EmptyCache
    /\ before = EmptyCache
    /\ opName = "none"
    /\ argA \in QueryTypes
    /\ argB \in BareTypes \cup ComparisonTypes
    /\ argV \in QueryValues
    /\ outcome = "none"
    /\ ret = NoneValue
    /\ calls = <<>>
    /\ verify = TRUE

QueryNext == DoIssubclass \/ DoIsinstance

SpecQuery == QueryInit /\ [][QueryNext]_vars

(***************************************************************************)
(* Parameterising: the __getitem__ of the structural and comparison kinds  *)
(***************************************************************************)

\* A type argument as __getitem__ stores it: None stands for type(None).
IsEllipsis(t) == "kind" \in DOMAIN t /\ t.kind = "Ellipsis"
IsSlice(s) == "k" \in DOMAIN s

RECURSIVE TupleLoop(_, _, _, _, _)
\* for t in types, from the i-th on, with the types kept so far.
TupleLoop(types, i, tupletypes, strict, c) ==
    IF i > Len(types)
    THEN IF tupletypes = <<>> THEN {Built("TypeError", NoneValue, c)}
         ELSE {Built("Returned", MkTuple(tupletypes, strict), c)}
    ELSE IF ~strict THEN {Built("SyntaxError", NoneValue, c)}
    ELSE IF IsEllipsis(types[i]) THEN TupleLoop(types, i + 1, tupletypes, FALSE, c)
    ELSE IF ~IsType(Annot(types[i])) THEN {Built("TypeError", NoneValue, c)}
    ELSE TupleLoop(types, i + 1, Append(tupletypes, Annot(types[i])), strict, c)

TupleMeta_getitem(self, types, c) ==
    IF self.param /\ self.tupletypes # <<>> THEN {Built("TypeError", NoneValue, c)}
    ELSE TupleLoop(types, 1, <<>>, TRUE, c)

\* recordtypes[k] = t on an ordered mapping: a key already there keeps its
\* place.
Put(items, k, t) ==
    IF k \in Keys(items) THEN [items EXCEPT ![Lookup(items, k)] = Item(k, t)]
    ELSE Append(items, Item(k, t))

RECURSIVE RecordLoop(_, _, _, _, _)
RecordLoop(types, i, recordtypes, strict, c) ==
    IF i > Len(types)
    THEN IF recordtypes = <<>> THEN {Built("TypeError", NoneValue, c)}
         ELSE {Built("Returned", MkRecord(recordtypes, strict), c)}
    ELSE IF ~strict THEN {Built("SyntaxError", NoneValue, c)}
    ELSE IF IsEllipsis(types[i]) THEN RecordLoop(types, i + 1, recordtypes, FALSE, c)
    ELSE IF ~IsSlice(types[i]) THEN {Built("SyntaxError", NoneValue, c)}
    ELSE IF ~IsType(Annot(types[i].t)) THEN {Built("TypeError", NoneValue, c)}
    ELSE RecordLoop(types, i + 1, Put(recordtypes, types[i].k, Annot(types[i].t)), strict, c)

RecordMeta_getitem(self, types, c) ==
    IF self.param /\ self.recordtypes # <<>> THEN {Built("TypeError", NoneValue, c)}
    ELSE RecordLoop(types, 1, <<>>, TRUE, c)

RECURSIVE HasAttrsLoop(_, _, _, _)
HasAttrsLoop(types, i, attrtypes, c) ==
    IF i > Len(types)
    THEN IF attrtypes = <<>> THEN {Built("TypeError", NoneValue, c)}
         ELSE {Built("Returned", MkHasAttrs(attrtypes), c)}
    ELSE IF ~IsSlice(types[i]) THEN {Built("SyntaxError", NoneValue, c)}
    ELSE IF ~IsType(Annot(types[i].t)) THEN {Built("TypeError", NoneValue, c)}
    ELSE HasAttrsLoop(types, i + 1, Put(attrtypes, types[i].k, Annot(types[i].t)), c)

HasAttrsMeta_getitem(self, types, c) ==
    IF self.param /\ self.attrtypes # <<>> THEN {Built("TypeError", NoneValue, c)}
    ELSE HasAttrsLoop(types, 1, <<>>, c)

\* The guard as a test of truth, if self.__argtypes__: an empty tuple of
\* argument types passes it.
CallableMeta_getitem_truthy(self, types, c) ==
    IF self.param /\ self.argtypes # <<>> THEN {Built("TypeError", NoneValue, c)}
    ELSE IF Len(types) < 1 THEN {Built("TypeError", NoneValue, c)}
    ELSE IF \E i \in DOMAIN types : ~IsType(Annot(types[i]))
    THEN {Built("TypeError", NoneValue, c)}
    ELSE {Built("Returned",
                MkCallable([i \in 1..(Len(types) - 1) |-> Annot(types[i])],
                           Annot(types[Len(types)])), c)}

\* *types, returntype = types: the last type is the return type.
CallableMeta_getitem(self, types, c) ==
    IF self.param THEN {Built("TypeError", NoneValue, c)}
    ELSE IF Len(types) < 1 THEN {Built("TypeError", NoneValue, c)}
    ELSE IF \E i \in DOMAIN types : ~IsType(Annot(types[i]))
    THEN {Built("TypeError", NoneValue, c)}
    ELSE {Built("Returned",
                MkCallable([i \in 1..(Len(types) - 1) |-> Annot(types[i])],
                           Annot(types[Len(types)])), c)}

ComparisonMeta_getitem(self, val, c) ==
    IF self.hasvalue THEN {Built("TypeError", NoneValue, c)}
    ELSE {Built("Returned", MkComparison(self.operator, val), c)}

\* Predicate = Callable[object, bool]
Predicate == MkCallable(<<Class("object")>>, Class("bool"))

\* The predicates given to Satisfies, by name: lambda x: x, a function
\* def h() -> int, and 5, which is no function.
Signature(pred) ==
    CASE pred = "truthy" -> FnPlain
      [] pred = "noargs" -> FnNoArgs
      [] OTHER           -> IntVal(5)

\* After isinstance(pred, Predicate) returned r.
SatisfiesMeta_checked(pred, r, c) ==
    IF r = "True" THEN {Built("Returned", MkSatisfies(pred), c)}
    ELSE IF r = "False" THEN {Built("TypeError", NoneValue, c)}
    ELSE {Built(r, NoneValue, c)}

SatisfiesMeta_getitem(self, pred, c) ==
    IF self.param THEN {Built("TypeError", NoneValue, c)}
    ELSE UNION {SatisfiesMeta_checked(pred, x.r, x.c)
                : x \in Inst(Signature(pred), Predicate, c)}

\* self[args]: the __getitem__ of type(self).
getitem(self, args, c) ==
    CASE self.kind = "Union"        -> UnionMeta_getitem(self, args, c)
      [] self.kind = "Intersection" -> IntersectionMeta_getitem(self, args, c)
      [] self.kind = "Tuple"        -> TupleMeta_getitem(self, args, c)
      [] self.kind = "Record"       -> RecordMeta_getitem(self, args, c)
      [] self.kind = "HasAttrs"     -> HasAttrsMeta_getitem(self, args, c)
      [] self.kind = "Callable"     -> CallableMeta_getitem(self, args, c)
      [] self.kind = "Comparison"   -> ComparisonMeta_getitem(self, args, c)
      [] OTHER                      -> SatisfiesMeta_getitem(self, args, c)

\* The arguments written between the brackets, by the kind of the class.
TypeArgs ==
    {<<Class("int")>>, <<Class("int"), Class("str")>>, <<Class("int"), Class("bool")>>,
     <<NoneValue>>, <<NonType>>, <<>>}

TupleArgs ==
    TypeArgs \cup {<<Class("int"), Ellipsis>>, <<Ellipsis, Class("int")>>, <<Ellipsis>>}

SliceArgs ==
    {<<Item("x", Class("int"))>>, <<Item("x", Class("int")), Item("y", NoneValue)>>,
     <<Item("x", Class("int")), Item("x", Class("str"))>>,
     <<Item("x", Class("int")), Ellipsis>>, <<Ellipsis, Item("x", Class("int"))>>,
     <<Item("x", NonType)>>, <<NonType>>, <<>>}

ArgsFor(self) ==
    CASE self.kind \in {"Union", "Intersection", "Callable"} -> TypeArgs
      [] self.kind = "Tuple"                     -> TupleArgs
      [] self.kind \in {"Record", "HasAttrs"}    -> SliceArgs
      [] self.kind = "Comparison"                -> {0, 1}
      [] OTHER                                   -> {"truthy", "noargs", "five"}

\* The classes of kind b.kind that b[args] returns for some args.
MadeFrom(b) ==
    {x.val : x \in {y \in UNION {getitem(b, a, EmptyCache) : a \in ArgsFor(b)} :
                        y.r = "Returned" /\ y.val.kind = b.kind}}

Parameterised == UNION {MadeFrom(b) : b \in BareTypes}

ParamInit ==
    /\ cache = EmptyCache
    /\ before = EmptyCache
    /\ opName = "none"
    /\ argB \in BareTypes \cup Parameterised
    /\ argA = argB
    /\ argV = NoValue
    /\ outcome = "none"
    /\ ret = NoneValue
    /\ calls = <<>>
    /\ verify = TRUE

\* argB[args]: argA keeps the class as it was before the call.
DoGetitem ==
    \E args \in ArgsFor(argB) :
        \E x \in getitem(argB, args, cache) :
            /\ opName' = "getitem"
            /\ outcome' = x.r
            /\ ret' = x.val
            /\ cache' = x.c
            /\ before' = cache
            /\ calls' = <<>>
            /\ argA' = argB
            /\ argV' = args
            /\ UNCHANGED <<argB, verify>>

ParamNext == DoGetitem

SpecParam == ParamInit /\ [][ParamNext]_vars

(***************************************************************************)
(* Equality and hash of the classes                                        *)
(***************************************************************************)

HasXY == MkHasAttrs(<<Item("x", Class("int")), Item("y", Class("str"))>>)
HasYX == MkHasAttrs(<<Item("y", Class("str")), Item("x", Class("int"))>>)

EqTypes ==
    (StructuralTypes \ {BareTuple, BareCallable}) \cup CompositeTypes
        \cup ComparisonTypes \cup {HasXY, HasYX, MkSatisfies("truthy")}

EqInit ==
    /\ cache = EmptyCache
    /\ before = EmptyCache
    /\ opName = "none"
    /\ argA \in EqTypes
    /\ argB \in EqTypes
    /\ argV = NoValue
    /\ outcome = "none"
    /\ ret = NoneValue
    /\ calls = <<>>
    /\ verify = TRUE

\* argA == argB
DoEq ==
    /\ opName' = "eq"
    /\ outcome' = PyEq(argA, argB)
    /\ ret' = NoneValue
    /\ calls' = <<>>
    /\ UNCHANGED <<cache, before, argA, argB, argV, verify>>

\* hash(argA) == hash(argB)
DoHash ==
    /\ opName' = "hash"
    /\ outcome' = IF HashRaises(argA) \/ HashRaises(argB) THEN "AttributeError"
                  ELSE Bool(SameHash(argA, argB))
    /\ ret' = NoneValue
    /\ calls' = <<>>
    /\ UNCHANGED <<cache, before, argA, argB, argV, verify>>

EqNext == DoEq \/ DoHash

SpecEq == EqInit /\ [][EqNext]_vars

(***************************************************************************)
(* The contract decorator: expects(arguments, returns)(f)                  *)
(***************************************************************************)

\* What expects() keeps of its arguments: the mapping of argument names to
\* types and the return type, None replaced by type(None).
Contract(arguments, returns) == [arguments |-> arguments, returns |-> returns]

\* expects(arguments, returns): "Returned" with the contract the decorator
\* closes over, or TypeError for an expectation that is no type.
expects(arguments, returns) ==
    IF \E i \in DOMAIN arguments : ~IsType(Annot(arguments[i].t))
    THEN [r |-> "TypeError", val |-> NoneValue]
    ELSE IF ~IsType(Annot(returns)) THEN [r |-> "TypeError", val |-> NoneValue]
    ELSE [r |-> "Returned",
          val |-> Contract([i \in DOMAIN arguments |->
                               Item(arguments[i].k, Annot(arguments[i].t))],
                           Annot(returns))]

\* One call of the wrapper: the arguments as sig.bind binds them, in order,
\* and the value f returns when it is invoked.
WrappedCall(bound, result) == [bound |-> bound, result |-> result]

\* The wrapped function was invoked: f(*args, **kwargs).
Invoke == Call(NoValue, NoValue, "invoked")

\* What a call of the wrapper does: the outcome, the value returned, the
\* caches and the checks and the invocation it made, in order.
Result(r, val, c, log) == [r |-> r, val |-> val, c |-> c, log |-> log]

\* raise TypeError when isinstance returned False; an exception raised by
\* isinstance itself goes through.
Violation(r) == IF r = "False" THEN "TypeError" ELSE r

\* result = f(...), then isinstance(result, returns).
CheckReturn(contract, call, c, log) ==
    {Result(IF x.r = "True" THEN "Returned" ELSE Violation(x.r),
            IF x.r = "True" THEN call.result ELSE NoneValue,
            x.c,
            Append(log, Call(call.result, contract.returns, x.r)))
     : x \in Inst(call.result, contract.returns, c)}

RECURSIVE CheckArguments(_, _, _, _, _)
\* for k, v in bound.arguments.items(), from the i-th on.
CheckArguments(contract, call, i, c, log) ==
    IF i > Len(call.bound) THEN CheckReturn(contract, call, c, Append(log, Invoke))
    ELSE IF call.bound[i].k \notin Keys(contract.arguments)
    THEN CheckArguments(contract, call, i + 1, c, log)
    ELSE UNION {
            IF x.r = "True"
            THEN CheckArguments(contract, call, i + 1, x.c,
                    Append(log, Call(call.bound[i].v,
                                     TypeAt(contract.arguments, call.bound[i].k), x.r)))
            ELSE {Result(Violation(x.r), NoneValue, x.c,
                    Append(log, Call(call.bound[i].v,
                                     TypeAt(contract.arguments, call.bound[i].k), x.r)))}
         : x \in Inst(call.bound[i].v, TypeAt(contract.arguments, call.bound[i].k), c)}

\* The wrapper with every check left out: f is called whatever the flag.
wrapper_unchecked(contract, call, flag, c) ==
    {Result("Returned", call.result, c, <<Invoke>>)}

\* wrapper(*args, **kwargs) with the module flag read as flag.
wrapper(contract, call, flag, c) ==
    IF ~flag THEN {Result("Returned", call.result, c, <<Invoke>>)}
    ELSE CheckArguments(contract, call, 1, c, <<>>)

\* The expectations given to expects(), and the contracts it accepts.
Expectations ==
    {<<>>, <<Item("x", Class("int"))>>, <<Item("x", NoneValue)>>, <<Item("x", NonType)>>,
     <<Item("x", Class("int")), Item("y", Ge1)>>,
     <<Item("x", CallIntRec), Item("y", CallIntRec)>>}

Contracts ==
    {e.val : e \in {d \in {expects(a, r) : a \in Expectations,
                                           r \in {Class("object"), Class("int"), NoneValue,
                                                  Eq1, NonType}} :
                        d.r = "Returned"}}

WrappedCalls ==
    {WrappedCall(b, v) :
        b \in {<<>>, <<Entry("x", IntVal(1))>>, <<Entry("x", StrVal("a"))>>,
               <<Entry("x", NoneVal)>>, <<Entry("y", StrVal("a"))>>,
               <<Entry("x", IntVal(1)), Entry("y", IntVal(1))>>,
               <<Entry("x", IntVal(1)), Entry("y", IntVal(0))>>,
               <<Entry("x", IntVal(1)), Entry("y", StrVal("a"))>>,
               <<Entry("x", FnIntRec), Entry("y", FnIntRec)>>,
               <<Entry("x", IntVal(1)), Entry("z", StrVal("a"))>>},
        v \in {IntVal(1), IntVal(0), StrVal("a"), NoneVal}}

\* verify = True at import; argA is the contract of the decorated function.
EnforcerInit ==
    /\ cache = EmptyCache
    /\ before = EmptyCache
    /\ opName = "none"
    /\ argA \in Contracts
    /\ argB = NoneValue
    /\ argV = NoValue
    /\ outcome = "none"
    /\ ret = NoneValue
    /\ calls = <<>>
    /\ verify = TRUE

\* One call of the wrapped function.
DoCall ==
    \E call \in WrappedCalls :
        \E x \in wrapper(argA, call, verify, cache) :
            /\ opName' = "call"
            /\ argV' = call
            /\ outcome' = x.r
            /\ ret' = x.val
            /\ cache' = x.c
            /\ before' = cache
            /\ calls' = x.log
            /\ UNCHANGED <<argA, argB, verify>>

\* veripy.verify = b
SetVerify ==
    \E b \in BOOLEAN :
        /\ b # verify
        /\ verify' = b
        /\ opName' = "verify"
        /\ outcome' = "none"
        /\ ret' = NoneValue
        /\ calls' = <<>>
        /\ UNCHANGED <<cache, before, argA, argB, argV>>

EnforcerNext == DoCall \/ SetVerify

SpecEnforcer == EnforcerInit /\ [][EnforcerNext]_vars

(***************************************************************************)
(* Membership in a union that was built                                    *)
(***************************************************************************)

UnionMembers ==
    {Class("int"), Class("str"), Class("tuple"), Class("object"),
     MkTuple(<<Class("int")>>, TRUE), MkTuple(<<Class("int")>>, FALSE),
     RecInt, MkHasAttrs(<<Item("x", Class("int"))>>), CallIntInt,
     Eq1, Ne1, Ge1, MkComparison("lt", 1)}

UnionValues ==
    {IntVal(0), IntVal(1), StrVal("a"), NoneVal,
     TupleVal(<<>>), TupleVal(<<IntVal(1)>>), TupleVal(<<StrVal("a")>>),
     TupleVal(<<IntVal(1), IntVal(1)>>),
     DictVal(<<Entry("x", IntVal(1))>>), FnIntBool}

UnionInit ==
    /\ cache = EmptyCache
    /\ before = EmptyCache
    /\ opName = "none"
    /\ argA \in UnionMembers
    /\ argB \in UnionMembers
    /\ argV \in UnionValues
    /\ outcome = "none"
    /\ ret = NoneValue
    /\ calls = <<>>
    /\ verify = TRUE

\* isinstance(argV, U), U the class Union[argA, argB] returned.
DoIsinstanceBuilt ==
    /\ opName = "Union"
    /\ outcome = "Returned"
    /\ \E x \in instancecheck(ret, argV, cache) :
        /\ opName' = "member"
        /\ outcome' = x.r
        /\ cache' = x.c
        /\ before' = cache
        /\ calls' = x.log
        /\ UNCHANGED <<argA, argB, argV, ret, verify>>

UnionNext == DoUnion \/ DoIsinstanceBuilt

SpecUnion == UnionInit /\ [][UnionNext]_vars

(***************************************************************************)
(* Properties of the type lattice                                          *)
(***************************************************************************)

\* "x is a subtype of y" asked with the caches as c: the query can / must
\* return True (it may also return False or raise).
MaySub(x, y, c) == \E o \in Sub(x, y, c) : o.r = "True"
MustSub(x, y, c) == \A o \in Sub(x, y, c) : o.r = "True"

\* The member set of what a construction returned.
MemberSet(t) ==
    IF t.kind = "Union" /\ t.param THEN t.uniontypes
    ELSE IF t.kind = "Intersection" /\ t.param THEN t.intersecttypes
    ELSE {t}

Antichain(S, c) == \A m \in S : \A n \in S \ {m} : ~MaySub(m, n, c)

\* C1: Union[A, B] returns a type whose member set is an antichain under the
\* subtype relation, and returns B itself whenever A is a subtype of B.
C1_UnionAntichain ==
    opName = "Union" =>
        /\ outcome = "Returned"
        /\ Antichain(MemberSet(ret), cache)
        /\ MustSub(argA, argB, before) => ret = argB

\* C2: Intersection[A, B] returns a type whose member set is an antichain,
\* and returns A itself whenever A is a subtype of B.
C2_IntersectionAntichain ==
    opName = "Intersection" =>
        /\ outcome = "Returned"
        /\ Antichain(MemberSet(ret), cache)
        /\ MustSub(argA, argB, before) => ret = argA

\* C3: Union[A, A] and Intersection[A, A] return A itself, for A of every
\* descriptor kind.
C3_Idempotent ==
    (opName \in {"Union", "Intersection"} /\ argA = argB) =>
        outcome = "Returned" /\ ret = argA

\* C4: for a parameterised union U and a type T that is not a union,
\* issubclass(U, T) is true iff every member of U is a subtype of T.
C4_UnionBelowType ==
    (opName = "issubclass" /\ argA.kind = "Union" /\ argA.param /\ argB.kind # "Union") =>
        /\ outcome = "True" => \A m \in argA.uniontypes : MaySub(m, argB, before)
        /\ (\A m \in argA.uniontypes : MustSub(m, argB, before)) => outcome = "True"

\* C5: for a parameterised union U as the target, a non-union C is a subtype
\* of U iff it is a subtype of some member of U, a parameterised union V is a
\* subtype of U iff every member of V is a subtype of U, and U is a subtype
\* of itself.
C5_BelowUnion ==
    (opName = "issubclass" /\ argB.kind = "Union" /\ argB.param) =>
        /\ argA.kind # "Union" =>
            /\ outcome = "True" => \E m \in argB.uniontypes : MaySub(argA, m, before)
            /\ (\E m \in argB.uniontypes : MustSub(argA, m, before)) => outcome = "True"
        /\ (argA.kind = "Union" /\ argA.param) =>
            /\ outcome = "True" => \A m \in argA.uniontypes : MaySub(m, argB, before)
            /\ (\A m \in argA.uniontypes : MustSub(m, argB, before)) => outcome = "True"
        /\ argA = argB => outcome = "True"


\* C7: for parameterised Tuple descriptors C and S, issubclass(C, S) is true
\* iff C declares at least as many positions as S, C is strict with as many
\* positions whenever S is strict, and each position type of C is a subtype
\* of the type at the same position of S.
TupleShape(C, S) ==
    /\ Len(C.tupletypes) >= Len(S.tupletypes)
    /\ S.strict => (C.strict /\ Len(C.tupletypes) = Len(S.tupletypes))

C7_TupleSubtype ==
    (/\ opName = "issubclass"
     /\ argA.kind = "Tuple" /\ argA.param
     /\ argB.kind = "Tuple" /\ argB.param) =>
        /\ outcome = "True" =>
            /\ TupleShape(argA, argB)
            /\ \A i \in DOMAIN argB.tupletypes :
                  MaySub(argA.tupletypes[i], argB.tupletypes[i], before)
        /\ (/\ TupleShape(argA, argB)
            /\ \A i \in DOMAIN argB.tupletypes :
                  MustSub(argA.tupletypes[i], argB.tupletypes[i], before))
           => outcome = "True"

\* C10: between two Callable descriptors C and S, issubclass(C, S) is true
\* iff both are parameterised, they declare the same number of parameter
\* types, C's return type is a subtype of S's, and each parameter type of S
\* is a subtype of the parameter type of C at the same position.
C10_CallableSubtype ==
    (opName = "issubclass" /\ argA.kind = "Callable" /\ argB.kind = "Callable") =>
        /\ outcome = "True" =>
            /\ argA.param /\ argB.param
            /\ Len(argA.argtypes) = Len(argB.argtypes)
            /\ MaySub(argA.returntype, argB.returntype, before)
            /\ \A i \in DOMAIN argB.argtypes :
                  MaySub(argB.argtypes[i], argA.argtypes[i], before)
        /\ (/\ argA.param /\ argB.param
            /\ Len(argA.argtypes) = Len(argB.argtypes)
            /\ MustSub(argA.returntype, argB.returntype, before)
            /\ \A i \in DOMAIN argB.argtypes :
                  MustSub(argB.argtypes[i], argA.argtypes[i], before))
           => outcome = "True"

(***************************************************************************)
(* Properties of membership                                                *)
(***************************************************************************)

\* "v is a member of t" asked with the caches as c: the query can / must
\* return True.
MayInst(v, t, c) == \E o \in Inst(v, t, c) : o.r = "True"
MustInst(v, t, c) == \A o \in Inst(v, t, c) : o.r = "True"

\* A tuple with at least as many elements as T declares positions, exactly
\* as many when T is strict.
TupleFits(v, T) ==
    /\ v.kind = "tuple"
    /\ Len(v.elems) >= Len(T.tupletypes)
    /\ T.strict => Len(v.elems) = Len(T.tupletypes)

\* C6: for a parameterised Tuple descriptor T with n positions,
\* isinstance(v, T) is true iff v is a tuple with at least n elements,
\* exactly n when T is strict, and each of the first n elements is a member
\* of the type at its position.
C6_TupleMember ==
    (opName = "isinstance" /\ argB.kind = "Tuple" /\ argB.param) =>
        /\ outcome = "True" =>
            /\ TupleFits(argV, argB)
            /\ \A i \in DOMAIN argB.tupletypes :
                  MayInst(argV.elems[i], argB.tupletypes[i], before)
        /\ (/\ TupleFits(argV, argB)
            /\ \A i \in DOMAIN argB.tupletypes :
                  MustInst(argV.elems[i], argB.tupletypes[i], before))
           => outcome = "True"

\* A dict with at least as many entries as T declares keys, exactly as many
\* when T is strict.
RecordFits(v, T) ==
    /\ v.kind = "dict"
    /\ Len(v.entries) >= Len(T.recordtypes)
    /\ T.strict => Len(v.entries) = Len(T.recordtypes)

HasKeys(v, T) == Keys(T.recordtypes) \subseteq EntryKeys(v.entries)

\* C8: for a parameterised Record descriptor T with keys K, isinstance(v, T)
\* is true iff v is a mapping with at least |K| entries, exactly |K| when T
\* is strict, that has every key of K with a value that is a member of the
\* type declared for the key; a mapping that lacks a key of K gives False
\* and not an error.
C8_RecordMember ==
    (opName = "isinstance" /\ argB.kind = "Record" /\ argB.param) =>
        /\ outcome = "True" =>
            /\ RecordFits(argV, argB)
            /\ HasKeys(argV, argB)
            /\ \A k \in Keys(argB.recordtypes) :
                  MayInst(ValueAt(argV.entries, k), TypeAt(argB.recordtypes, k), before)
        /\ (/\ RecordFits(argV, argB)
            /\ HasKeys(argV, argB)
            /\ \A k \in Keys(argB.recordtypes) :
                  MustInst(ValueAt(argV.entries, k), TypeAt(argB.recordtypes, k), before))
           => outcome = "True"
        /\ (argV.kind = "dict" /\ ~HasKeys(argV, argB)) => outcome = "False"

\* The parameters a function declares beyond the first n positional ones
\* all have defaults.
ExtrasDefaulted(f, n) ==
    \A j \in DOMAIN Positional(f.params) : j > n => Positional(f.params)[j].hasdefault

Declared(a) == a.kind # "empty"

\* C9: for a parameterised Callable descriptor T with parameter types
\* a1..an and return type R, isinstance(f, T) of a function f is true iff the
\* return annotation of f, when declared, is a subtype of R, f has at least
\* n positional parameters, a_i is a subtype of the annotation of the i-th
\* parameter when declared, and every positional parameter after the n-th
\* has a default.
C9_CallableMember ==
    (/\ opName = "isinstance"
     /\ argB.kind = "Callable" /\ argB.param
     /\ argV.kind = "function") =>
        /\ outcome = "True" =>
            /\ Declared(argV.return_annotation) =>
                  /\ IsType(Annot(argV.return_annotation))
                  /\ MaySub(Annot(argV.return_annotation), argB.returntype, before)
            /\ Len(Positional(argV.params)) >= Len(argB.argtypes)
            /\ \A i \in DOMAIN argB.argtypes :
                  Declared(Positional(argV.params)[i].annotation) =>
                      /\ IsType(Annot(Positional(argV.params)[i].annotation))
                      /\ MaySub(argB.argtypes[i],
                                Annot(Positional(argV.params)[i].annotation), before)
            /\ ExtrasDefaulted(argV, Len(argB.argtypes))
        /\ (/\ Declared(argV.return_annotation) =>
                  /\ IsType(Annot(argV.return_annotation))
                  /\ MustSub(Annot(argV.return_annotation), argB.returntype, before)
            /\ Len(Positional(argV.params)) >= Len(argB.argtypes)
            /\ \A i \in DOMAIN argB.argtypes :
                  Declared(Positional(argV.params)[i].annotation) =>
                      /\ IsType(Annot(Positional(argV.params)[i].annotation))
                      /\ MustSub(argB.argtypes[i],
                                 Annot(Positional(argV.params)[i].annotation), before)
            /\ ExtrasDefaulted(argV, Len(argB.argtypes)))
           => outcome = "True"

(***************************************************************************)
(* Properties of the bare classes and of the comparison types              *)
(***************************************************************************)

\* C11 as stated: isinstance(v, T) and issubclass(C, T) raise TypeError for
\* T the bare class of any kind.
C11_BareRaises ==
    (opName \in {"isinstance", "issubclass"} /\ argB \in BareTypes) =>
        outcome = "TypeError"

\* C11: isinstance(v, T) and issubclass(C, T) raise TypeError for T the bare
\* Union or Intersection, and isinstance(v, T) raises TypeError for T a bare
\* comparison class or the bare Satisfies; isinstance(v, T) is True or False
\* for T the bare Tuple, Record, HasAttrs or Callable, and issubclass(C, T)
\* is False for T a bare comparison class or the bare Satisfies.
C11_BareQueries ==
    /\ (opName \in {"isinstance", "issubclass"} /\ argB \in {BareUnion, BareIntersection})
          => outcome = "TypeError"
    /\ (opName = "isinstance" /\ argB \in BareComparisons \cup {BareSatisfies})
          => outcome = "TypeError"
    /\ (opName = "isinstance"
            /\ argB \in {BareTuple, BareRecord, BareHasAttrs, BareCallable})
          => outcome \in {"True", "False"}
    /\ (opName = "issubclass" /\ argB \in BareComparisons \cup {BareSatisfies})
          => outcome = "False"

\* isinstance(v, Union) has raised TypeError.
C11_Witness ==
    opName = "isinstance" /\ argB = BareUnion /\ outcome = "TypeError"

\* Whether a class carries a payload.
HasPayload(t) == IF t.kind = "Comparison" THEN t.hasvalue ELSE t.param

C14_ComparisonLeaf ==
    (opName = "issubclass" /\ argB \in ComparisonTypes) => outcome = "False"

\* issubclass(Eq[1], Eq[1]) has returned False.
C14_Witness ==
    opName = "issubclass" /\ argA = Eq1 /\ argB = Eq1 /\ outcome = "False"

(***************************************************************************)
(* Properties of equality and hash                                         *)
(***************************************************************************)

\* Two classes of one kind built from the same payload: the same members,
\* positions and strict flag, items in the same order, signature, operator
\* and value.
SamePayload(a, b) == a = b

\* C13: two classes of the same kind built from the same payload compare
\* equal, without raising, and have equal hashes, for every kind.
C13_Structural ==
    (opName \in {"eq", "hash"} /\ argA.kind # "Satisfies" /\ SamePayload(argA, argB)) =>
        outcome = "True"

(***************************************************************************)
(* Properties of the contract decorator                                    *)
(***************************************************************************)

Invoked == \E i \in DOMAIN calls : calls[i] = Invoke

\* The checks the call made before its i-th step.
ChecksBefore(i) == {calls[j] : j \in 1..(i - 1)}

\* The check of the j-th bound argument against its expectation, passed.
Passed(j) ==
    Call(argV.bound[j].v, TypeAt(argA.arguments, argV.bound[j].k), "True")

\* C15: a call of the wrapper reads verify when it is made. With the flag
\* false it invokes the function and nothing else, and returns its result.
\* With the flag true it invokes the function only after the check of every
\* bound argument that has an expectation has passed; a check that did not
\* pass ends the call with an exception and the function is not invoked;
\* and the result is returned only after its check against the return
\* expectation has passed.
C15_Enforcer ==
    opName = "call" =>
        /\ ~verify =>
            /\ calls = <<Invoke>>
            /\ outcome = "Returned"
            /\ ret = argV.result
        /\ verify =>
            /\ \A i \in DOMAIN calls :
                  calls[i] = Invoke =>
                      \A j \in DOMAIN argV.bound :
                          argV.bound[j].k \in Keys(argA.arguments) =>
                              Passed(j) \in ChecksBefore(i)
            /\ (\E j \in DOMAIN calls :
                    /\ calls[j].r \notin {"True", "invoked"}
                    /\ Invoke \notin ChecksBefore(j))
                  => (~Invoked /\ outcome \notin {"Returned", "True", "False"})
            /\ outcome = "Returned" =>
                  /\ Invoked
                  /\ calls[Len(calls)] = Call(argV.result, argA.returns, "True")
                  /\ ret = argV.result

\* The flag was set to false and the next call, of a function that expects
\* an int and is given a string, went through to the function.
C15_Witness ==
    /\ opName = "call"
    /\ ~verify
    /\ argA.arguments = <<Item("x", Class("int"))>>
    /\ argV.bound = <<Entry("x", StrVal("a"))>>
    /\ outcome = "Returned"

(***************************************************************************)
(* Properties of union construction                                        *)
(***************************************************************************)

\* C16: a value is a member of the class Union[argA, argB] returns exactly
\* when it is a member of argA or a member of argB.
C16_UnionMeaning ==
    opName = "member" =>
        (outcome = "True" <=>
            (MayInst(argV, argA, EmptyCache) \/ MayInst(argV, argB, EmptyCache)))

(***************************************************************************)
(* Properties of comparison types                                          *)
(***************************************************************************)

\* Two parameterised comparison types with different operators and the
\* same value.
OtherOperator(a, b) ==
    /\ a.kind = "Comparison" /\ b.kind = "Comparison"
    /\ a.hasvalue /\ b.hasvalue
    /\ a.operator # b.operator
    /\ a.value = b.value

\* C17: comparison types with different operators and the same value do
\* not compare equal.
C17_OperatorDistinct ==
    (opName = "eq" /\ OtherOperator(argA, argB)) => outcome = "False"

====
